---- MODULE Spec2Model ----
(***************************************************************************)
(* Dijkstra shortest paths of graphrs                                      *)
(* (src/src/algorithms/shortest_path/dijkstra.rs): the search loop of      *)
(* dijkstra_multisource with its fringe, its seen/dist maps and its        *)
(* equal-length path accumulation, and the entry points multi_source,      *)
(* single_source and all_pairs built on it.                                *)
(*                                                                         *)
(* Edge weights and distances are f64 in the source; the model uses        *)
(* integers, so every sum is exact.                                        *)
(***************************************************************************)
EXTENDS Integers, Sequences, FiniteSets, TLC

(***************************************************************************)
(* Bounds of the model.                                                    *)
(***************************************************************************)
\* largest number of edges of a graph
MaxEdges == 2

\* node names: T is Ord, the order of the integers
Nodes == {1, 2, 3}
\* the weights an edge can carry, and the values of a cutoff
Weights == {-1, 0, 1}

(***************************************************************************)
(* Option<T>                                                               *)
(***************************************************************************)
None == <<>>
Some(x) == <<x>>
is_some(o) == o # <<>>
is_none(o) == o = <<>>
unwrap(o) == o[1]

\* a map with key k set to value x (HashMap::insert)
insert(map, k, x) ==
  [y \in (DOMAIN map) \cup {k} |-> IF y = k THEN x ELSE map[y]]

\* the sequence s without its i-th element
RemoveAt(s, i) == [j \in 1 .. (Len(s) - 1) |-> IF j < i THEN s[j] ELSE s[j + 1]]

\* the smallest element of a non-empty set of integers (reduce(f64::min))
SetMin(S) == CHOOSE x \in S : \A y \in S : x <= y

(***************************************************************************)
(* The graph, read-only during a query.  An edge is [u, v, weight] with    *)
(* weight an Option; in an undirected graph the edge joins u and v both    *)
(* ways.  order[v] is the order in which the graph enumerates the          *)
(* successors (neighbors) of v.                                            *)
(***************************************************************************)
Edges == [u : Nodes, v : Nodes, weight : {None} \cup {Some(w) : w \in Weights}]

\* the nodes that an edge leaves v for
Successors(edges, v) == {e.v : e \in {x \in edges : x.u = v}}
\* the nodes that an edge joins to v
Neighbors(edges, v) ==
  {e.v : e \in {x \in edges : x.u = v}} \cup {e.u : e \in {x \in edges : x.v = v}}

\* Graph::get_successor_nodes: the successors of v, as the graph enumerates them
get_successor_nodes(graph, v) ==
  SelectSeq(graph.order[v], LAMBDA u : u \in Successors(graph.edges, v))

\* Graph::get_neighbor_nodes: the neighbors of v, as the graph enumerates them
get_neighbor_nodes(graph, v) ==
  SelectSeq(graph.order[v], LAMBDA u : u \in Neighbors(graph.edges, v))

\* Graph::get_edges: the edges from u to v (between u and v if undirected)
get_edges(graph, u, v) ==
  {e \in graph.edges :
     \/ e.u = u /\ e.v = v
     \/ ~graph.directed /\ e.u = v /\ e.v = u}

\* Graph::get_edge: the one edge from u to v of a graph without multi-edges
get_edge(graph, u, v) == CHOOSE e \in get_edges(graph, u, v) : TRUE

\* Graph::edges_have_weight: whether every edge carries a weight
edges_have_weight(graph) == \A e \in graph.edges : is_some(e.weight)

\* Graph::get_all_nodes: every node of the graph
get_all_nodes(graph) == Nodes

\* lines 432-441
get_successors_or_neighbors(graph, node_name) ==
  IF graph.directed THEN get_successor_nodes(graph, node_name)
  ELSE get_neighbor_nodes(graph, node_name)

\* lines 391-398
get_cost_single(graph, u, v) == unwrap(get_edge(graph, u, v).weight)

\* lines 378-386
get_cost_multi(graph, u, v) ==
  SetMin({unwrap(e.weight) : e \in get_edges(graph, u, v)})

\* get_cost with the unweighted cost 0.0 in place of 1.0
get_cost_unweighted_zero(q, u, v) ==
  IF q.weighted
    THEN IF q.graph.multi_edges
           THEN get_cost_multi(q.graph, u, v)
           ELSE get_cost_single(q.graph, u, v)
    ELSE 0

\* lines 256-262: the closure get_cost of dijkstra_multisource
get_cost(q, u, v) ==
  IF q.weighted
    THEN IF q.graph.multi_edges
           THEN get_cost_multi(q.graph, u, v)
           ELSE get_cost_single(q.graph, u, v)
    ELSE 1

(***************************************************************************)
(* The fringe: a BinaryHeap (max-heap) of FringeNode, kept here as the     *)
(* sequence of its entries; pop takes a greatest entry under cmp.          *)
(***************************************************************************)
FringeNode(node_name, count, distance) ==
  [node_name |-> node_name, count |-> count, distance |-> distance]

\* cmp comparing the counts before the distances
cmp_count_before_distance(self, other) ==
  IF self.count < other.count THEN "Less"
  ELSE IF self.count > other.count THEN "Greater"
  ELSE IF self.distance < other.distance THEN "Less"
  ELSE IF self.distance > other.distance THEN "Greater"
  ELSE IF self.node_name < other.node_name THEN "Less"
  ELSE IF self.node_name > other.node_name THEN "Greater"
  ELSE "Equal"

\* lines 20-34: Ord for FringeNode
cmp(self, other) ==
  IF self.distance < other.distance THEN "Less"
  ELSE IF self.distance > other.distance THEN "Greater"
  ELSE IF self.count < other.count THEN "Less"
  ELSE IF self.count > other.count THEN "Greater"
  ELSE IF self.node_name < other.node_name THEN "Less"
  ELSE IF self.node_name > other.node_name THEN "Greater"
  ELSE "Equal"

\* BinaryHeap::pop: the position of a greatest entry (entries that compare
\* Equal are equal in every field, so which of them is taken does not matter)
peek(fringe) ==
  CHOOSE i \in 1 .. Len(fringe) :
    /\ \A j \in 1 .. Len(fringe) : cmp(fringe[j], fringe[i]) # "Greater"
    /\ \A j \in 1 .. (i - 1) : cmp(fringe[j], fringe[i]) # "Equal"

\* push_fringe_node storing the distance without the negation
push_fringe_node_not_negated(st, u, vu_dist) ==
  [st EXCEPT !.count = st.count + 1,
             !.fringe = Append(st.fringe, FringeNode(u, st.count + 1, vu_dist))]

\* lines 332-342
push_fringe_node(st, u, vu_dist) ==
  [st EXCEPT !.count = st.count + 1,
             !.fringe = Append(st.fringe, FringeNode(u, st.count + 1, -vu_dist))]

\* the paths of v appended to those of u without the push of u
append_v_paths_to_u_paths(u, v, paths) ==
  insert(paths, u, paths[u] \o paths[v])

\* lines 349-371
add_u_to_v_paths_and_append_v_paths_to_u_paths(u, v, paths) ==
  LET v_paths == [i \in 1 .. Len(paths[v]) |-> Append(paths[v][i], u)]
  IN  insert(paths, u, paths[u] \o v_paths)

\* lines 305-307: the paths of v, each extended by u, become the paths of u
extend_paths(u, v, paths) ==
  LET with_v == IF v \in DOMAIN paths THEN paths ELSE insert(paths, v, <<>>)
      new_paths_v == [i \in 1 .. Len(with_v[v]) |-> Append(with_v[v][i], u)]
  IN  insert(with_v, u, new_paths_v)

\* visit merging equal-length paths whatever first_only says
visit_ignoring_first_only(q, st, v, u) ==
  LET cost == get_cost(q, v, u)
      vu_dist == st.dist[v] + cost
  IN  IF is_some(q.cutoff) /\ vu_dist > unwrap(q.cutoff) THEN st
      ELSE IF u \in DOMAIN st.dist
        THEN IF vu_dist < st.dist[u] THEN [st EXCEPT !.pc = "err"] ELSE st
      ELSE IF u \notin DOMAIN st.seen \/ vu_dist < st.seen[u]
        THEN LET pushed == push_fringe_node(st, u, vu_dist)
             IN  [pushed EXCEPT !.seen = insert(st.seen, u, vu_dist),
                                !.paths = extend_paths(u, v, st.paths)]
      ELSE IF vu_dist = st.seen[u]
        THEN LET pushed == push_fringe_node(st, u, vu_dist)
             IN  [pushed EXCEPT !.paths =
                    add_u_to_v_paths_and_append_v_paths_to_u_paths(u, v, st.paths)]
      ELSE st

\* visit without the test for a shorter path to a finalized node
visit_without_contradiction_test(q, st, v, u) ==
  LET cost == get_cost(q, v, u)
      vu_dist == st.dist[v] + cost
  IN  IF is_some(q.cutoff) /\ vu_dist > unwrap(q.cutoff) THEN st
      ELSE IF u \in DOMAIN st.dist THEN st
      ELSE IF u \notin DOMAIN st.seen \/ vu_dist < st.seen[u]
        THEN LET pushed == push_fringe_node(st, u, vu_dist)
             IN  [pushed EXCEPT !.seen = insert(st.seen, u, vu_dist),
                                !.paths = extend_paths(u, v, st.paths)]
      ELSE IF ~q.first_only /\ vu_dist = st.seen[u]
        THEN LET pushed == push_fringe_node(st, u, vu_dist)
             IN  [pushed EXCEPT !.paths =
                    add_u_to_v_paths_and_append_v_paths_to_u_paths(u, v, st.paths)]
      ELSE st

\* visit merging equal-length paths into a finalized node too
visit_merging_into_finalized(q, st, v, u) ==
  LET cost == get_cost(q, v, u)
      vu_dist == st.dist[v] + cost
  IN  IF is_some(q.cutoff) /\ vu_dist > unwrap(q.cutoff) THEN st
      ELSE IF u \in DOMAIN st.dist /\ vu_dist < st.dist[u]
        THEN [st EXCEPT !.pc = "err"]
      ELSE IF u \notin DOMAIN st.seen \/ vu_dist < st.seen[u]
        THEN LET pushed == push_fringe_node(st, u, vu_dist)
             IN  [pushed EXCEPT !.seen = insert(st.seen, u, vu_dist),
                                !.paths = extend_paths(u, v, st.paths)]
      ELSE IF ~q.first_only /\ vu_dist = st.seen[u]
        THEN LET pushed == push_fringe_node(st, u, vu_dist)
             IN  [pushed EXCEPT !.paths =
                    add_u_to_v_paths_and_append_v_paths_to_u_paths(u, v, st.paths)]
      ELSE st

\* visit with the comparison against the cutoff turned around
visit_cutoff_turned(q, st, v, u) ==
  LET cost == get_cost(q, v, u)
      vu_dist == st.dist[v] + cost
  IN  IF is_some(q.cutoff) /\ vu_dist < unwrap(q.cutoff) THEN st
      ELSE IF u \in DOMAIN st.dist
        THEN IF vu_dist < st.dist[u] THEN [st EXCEPT !.pc = "err"] ELSE st
      ELSE IF u \notin DOMAIN st.seen \/ vu_dist < st.seen[u]
        THEN LET pushed == push_fringe_node(st, u, vu_dist)
             IN  [pushed EXCEPT !.seen = insert(st.seen, u, vu_dist),
                                !.paths = extend_paths(u, v, st.paths)]
      ELSE IF ~q.first_only /\ vu_dist = st.seen[u]
        THEN LET pushed == push_fringe_node(st, u, vu_dist)
             IN  [pushed EXCEPT !.paths =
                    add_u_to_v_paths_and_append_v_paths_to_u_paths(u, v, st.paths)]
      ELSE st

\* visit reporting a contradiction on an equal distance too
visit_contradiction_on_tie(q, st, v, u) ==
  LET cost == get_cost(q, v, u)
      vu_dist == st.dist[v] + cost
  IN  IF is_some(q.cutoff) /\ vu_dist > unwrap(q.cutoff) THEN st
      ELSE IF u \in DOMAIN st.dist
        THEN IF vu_dist <= st.dist[u] THEN [st EXCEPT !.pc = "err"] ELSE st
      ELSE IF u \notin DOMAIN st.seen \/ vu_dist < st.seen[u]
        THEN LET pushed == push_fringe_node(st, u, vu_dist)
             IN  [pushed EXCEPT !.seen = insert(st.seen, u, vu_dist),
                                !.paths = extend_paths(u, v, st.paths)]
      ELSE IF ~q.first_only /\ vu_dist = st.seen[u]
        THEN LET pushed == push_fringe_node(st, u, vu_dist)
             IN  [pushed EXCEPT !.paths =
                    add_u_to_v_paths_and_append_v_paths_to_u_paths(u, v, st.paths)]
      ELSE st

\* visit with the comparison of the contradiction test turned around
visit_contradiction_turned(q, st, v, u) ==
  LET cost == get_cost(q, v, u)
      vu_dist == st.dist[v] + cost
  IN  IF is_some(q.cutoff) /\ vu_dist > unwrap(q.cutoff) THEN st
      ELSE IF u \in DOMAIN st.dist
        THEN IF vu_dist > st.dist[u] THEN [st EXCEPT !.pc = "err"] ELSE st
      ELSE IF u \notin DOMAIN st.seen \/ vu_dist < st.seen[u]
        THEN LET pushed == push_fringe_node(st, u, vu_dist)
             IN  [pushed EXCEPT !.seen = insert(st.seen, u, vu_dist),
                                !.paths = extend_paths(u, v, st.paths)]
      ELSE IF ~q.first_only /\ vu_dist = st.seen[u]
        THEN LET pushed == push_fringe_node(st, u, vu_dist)
             IN  [pushed EXCEPT !.paths =
                    add_u_to_v_paths_and_append_v_paths_to_u_paths(u, v, st.paths)]
      ELSE st

\* lines 291-311: the body of the loop over the successors of v
visit(q, st, v, u) ==
  LET cost == get_cost(q, v, u)
      vu_dist == st.dist[v] + cost
  IN  IF is_some(q.cutoff) /\ vu_dist > unwrap(q.cutoff) THEN st
      ELSE IF u \in DOMAIN st.dist
        THEN IF vu_dist < st.dist[u] THEN [st EXCEPT !.pc = "err"] ELSE st
      ELSE IF u \notin DOMAIN st.seen \/ vu_dist < st.seen[u]
        THEN LET pushed == push_fringe_node(st, u, vu_dist)
             IN  [pushed EXCEPT !.seen = insert(st.seen, u, vu_dist),
                                !.paths = extend_paths(u, v, st.paths)]
      ELSE IF ~q.first_only /\ vu_dist = st.seen[u]
        THEN LET pushed == push_fringe_node(st, u, vu_dist)
             IN  [pushed EXCEPT !.paths =
                    add_u_to_v_paths_and_append_v_paths_to_u_paths(u, v, st.paths)]
      ELSE st

\* lines 290-312: the loop over the successors of v; return Err stops it
RECURSIVE for_successors(_, _, _, _)
for_successors(q, st, v, nodes) ==
  IF nodes = <<>> \/ st.pc = "err" THEN st
  ELSE for_successors(q, visit(q, st, v, Head(nodes)), v, Tail(nodes))

\* loop_body without the test for a finalized node: a stale entry is
\* finalized and expanded again
loop_body_without_stale_test(q, st) ==
  LET i == peek(st.fringe)
      fringe_item == st.fringe[i]
      d == -fringe_item.distance
      v == fringe_item.node_name
      popped == [st EXCEPT !.fringe = RemoveAt(st.fringe, i)]
      finalized == [popped EXCEPT !.dist = insert(st.dist, v, d)]
  IN  IF is_some(q.target) /\ v = unwrap(q.target)
        THEN [finalized EXCEPT !.pc = "break"]
        ELSE for_successors(q, finalized, v,
                            get_successors_or_neighbors(q.graph, v))

\* loop_body leaving the entry of a finalized node in the fringe (peek in
\* place of pop)
loop_body_keeping_stale_entry(q, st) ==
  LET i == peek(st.fringe)
      fringe_item == st.fringe[i]
      d == -fringe_item.distance
      v == fringe_item.node_name
      popped == [st EXCEPT !.fringe = RemoveAt(st.fringe, i)]
  IN  IF v \in DOMAIN st.dist THEN st
      ELSE LET finalized == [popped EXCEPT !.dist = insert(st.dist, v, d)]
           IN  IF is_some(q.target) /\ v = unwrap(q.target)
                 THEN [finalized EXCEPT !.pc = "break"]
                 ELSE for_successors(q, finalized, v,
                                     get_successors_or_neighbors(q.graph, v))

\* lines 280-312: one iteration of the while loop
loop_body(q, st) ==
  LET i == peek(st.fringe)
      fringe_item == st.fringe[i]
      d == -fringe_item.distance
      v == fringe_item.node_name
      popped == [st EXCEPT !.fringe = RemoveAt(st.fringe, i)]
  IN  IF v \in DOMAIN st.dist THEN popped
      ELSE LET finalized == [popped EXCEPT !.dist = insert(st.dist, v, d)]
           IN  IF is_some(q.target) /\ v = unwrap(q.target)
                 THEN [finalized EXCEPT !.pc = "break"]
                 ELSE for_successors(q, finalized, v,
                                     get_successors_or_neighbors(q.graph, v))

\* lines 264-277: the search state before the loop
seed(q) ==
  LET srcs == {q.sources[i] : i \in 1 .. Len(q.sources)}
  IN  [paths  |-> [s \in srcs |-> <<<<s>>>>],
       dist   |-> <<>>,
       seen   |-> [s \in srcs |-> 0],
       fringe |-> [i \in 1 .. Len(q.sources) |-> FringeNode(q.sources[i], 0, 0)],
       count  |-> 0,
       pc     |-> "loop"]

\* lines 279-313: the while loop, run to its end
RECURSIVE while_fringe(_, _)
while_fringe(q, st) ==
  IF st.pc # "loop" \/ st.fringe = <<>> THEN st
  ELSE while_fringe(q, loop_body(q, st))

\* lines 405-425
get_shortest_path_infos(distances, paths) ==
  [k \in DOMAIN distances |-> [distance |-> distances[k], paths |-> paths[k]]]

\* Result<HashMap<T, ShortestPathInfo<T>>, Error>
Ok(value) == [kind |-> "Ok", error |-> "", value |-> value]
Err(error) == [kind |-> "Err", error |-> error, value |-> <<>>]

Query(graph, weighted, sources, target, cutoff, first_only) ==
  [graph |-> graph, weighted |-> weighted, sources |-> sources,
   target |-> target, cutoff |-> cutoff, first_only |-> first_only]

\* the guard without the test of weighted
weight_not_specified_any_mode(graph, weighted) == ~edges_have_weight(graph)

\* line 249: the guard of the EdgeWeightNotSpecified error
weight_not_specified(graph, weighted) == weighted /\ ~edges_have_weight(graph)

\* lines 237-316
dijkstra_multisource(graph, weighted, sources, target, cutoff, first_only) ==
  LET q == Query(graph, weighted, sources, target, cutoff, first_only)
  IN  IF weight_not_specified(graph, weighted)
        THEN Err("EdgeWeightNotSpecified")
        ELSE LET st == while_fringe(q, seed(q))
             IN  IF st.pc = "err" THEN Err("ContradictoryPaths")
                 ELSE Ok(get_shortest_path_infos(st.dist, st.paths))

\* lines 223-229: the Ok map filtered down to the target
filter_target(spis, target) ==
  LET keys == {k \in DOMAIN spis : is_none(target) \/ k = unwrap(target)}
  IN  [k \in keys |-> spis[k]]

\* lines 209-230
multi_source(graph, weighted, sources, target, cutoff, first_only) ==
  LET shortest_path_infos ==
        dijkstra_multisource(graph, weighted, sources, target, cutoff, first_only)
  IN  IF shortest_path_infos.kind = "Err" THEN shortest_path_infos
      ELSE Ok(filter_target(shortest_path_infos.value, target))

\* lines 155-168
single_source(graph, weighted, source, target, cutoff, first_only) ==
  multi_source(graph, weighted, <<source>>, target, cutoff, first_only)

\* lines 95-115: unwrap() of an Err run panics
all_pairs(graph, weighted, cutoff, first_only) ==
  LET runs == [node \in get_all_nodes(graph) |->
                 single_source(graph, weighted, node, None, cutoff, first_only)]
  IN  IF \E node \in DOMAIN runs : runs[node].kind = "Err"
        THEN [kind |-> "Panic", error |-> "", value |-> <<>>]
        ELSE Ok([node \in DOMAIN runs |-> runs[node].value])

(***************************************************************************)
(* The inputs of a query.                                                  *)
(***************************************************************************)
\* the sets of at most n edges
RECURSIVE EdgeSets(_)
EdgeSets(n) ==
  IF n = 0 THEN {{}}
  ELSE LET smaller == EdgeSets(n - 1)
       IN  smaller \cup {s \cup {e} : s \in smaller, e \in Edges}

\* the permutations of a set of nodes, as sequences
RECURSIVE Orders(_)
Orders(S) ==
  IF S = {} THEN {<<>>}
  ELSE UNION {{<<x>> \o o : o \in Orders(S \ {x})} : x \in S}

HasParallel(edges) ==
  \E e, f \in edges : e # f /\ e.u = f.u /\ e.v = f.v

\* no self-loops; an undirected edge is stored once, u < v; a graph is built
\* as a multigraph exactly when it is given parallel edges
WellFormed(directed, multi_edges, edges) ==
  /\ \A e \in edges : IF directed THEN e.u # e.v ELSE e.u < e.v
  /\ multi_edges <=> HasParallel(edges)

Adjacent(directed, edges, v) ==
  IF directed THEN Successors(edges, v) ELSE Neighbors(edges, v)

\* the enumeration orders of the adjacency of every node
AdjacencyOrders(directed, edges) ==
  {f \in [Nodes -> UNION {Orders(S) : S \in SUBSET Nodes}] :
     \A v \in Nodes : f[v] \in Orders(Adjacent(directed, edges, v))}

GraphsOf(directed, multi_edges) ==
  UNION {
    {[directed |-> directed, multi_edges |-> multi_edges, edges |-> es, order |-> o] :
       o \in AdjacencyOrders(directed, es)} :
    es \in {s \in EdgeSets(MaxEdges) : WellFormed(directed, multi_edges, s)}}

Graphs == UNION {GraphsOf(d, m) : d \in BOOLEAN, m \in BOOLEAN}

RECURSIVE SeqsUpTo(_, _)
SeqsUpTo(S, n) ==
  IF n = 0 THEN {<<>>}
  ELSE LET shorter == SeqsUpTo(S, n - 1)
       IN  shorter \cup {Append(s, x) : s \in shorter, x \in S}

\* The source lists, up to the names of the nodes (the graphs are closed
\* under renaming): one source, one source given twice, two sources.
SourceLists == {<<1>>, <<1, 1>>, <<1, 2>>}
Targets == {None} \cup {Some(t) : t \in Nodes}
Cutoffs == {None} \cup {Some(c) : c \in Weights}

(***************************************************************************)
(* One call of multi_source (single_source is the call with one source),   *)
(* taken one iteration of the while loop at a time.                        *)
(***************************************************************************)
VARIABLES graph, weighted, sources, target, cutoff, first_only,
          paths, dist, seen, fringe, count, pc, result,
          \* all_pairs: the search state and the result of the run of each
          \* node, and what all_pairs returns
          runs, all_pairs_result

inputs == <<graph, weighted, sources, target, cutoff, first_only>>
search == <<paths, dist, seen, fringe, count>>
concurrent == <<runs, all_pairs_result>>
vars == <<inputs, search, pc, result, concurrent>>

Q == Query(graph, weighted, sources, target, cutoff, first_only)
Cur == [paths |-> paths, dist |-> dist, seen |-> seen, fringe |-> fringe,
        count |-> count, pc |-> pc]

Become(st) ==
  /\ paths' = st.paths
  /\ dist' = st.dist
  /\ seen' = st.seen
  /\ fringe' = st.fringe
  /\ count' = st.count

NoResult == [kind |-> "", error |-> "", value |-> <<>>]

Init ==
  /\ graph \in Graphs
  /\ weighted \in BOOLEAN
  \* an unweighted query reads no weight: its edges carry 1 or nothing
  /\ IF weighted THEN TRUE
     ELSE \A e \in graph.edges : e.weight \in {None, Some(1)}
  /\ sources \in SourceLists
  /\ target \in Targets
  /\ cutoff \in Cutoffs
  /\ first_only \in BOOLEAN
  /\ paths = <<>>
  /\ dist = <<>>
  /\ seen = <<>>
  /\ fringe = <<>>
  /\ count = 0
  /\ pc = "start"
  /\ result = NoResult
  /\ runs = <<>>
  /\ all_pairs_result = NoResult

\* lines 249-254: a weighted query on a graph with an unweighted edge
RejectUnweighted ==
  /\ pc = "start"
  /\ weight_not_specified(graph, weighted)
  /\ pc' = "done"
  /\ result' = Err("EdgeWeightNotSpecified")
  /\ UNCHANGED <<inputs, search, concurrent>>

\* lines 264-277
Seed ==
  /\ pc = "start"
  /\ ~weight_not_specified(graph, weighted)
  /\ Become(seed(Q))
  /\ pc' = "loop"
  /\ UNCHANGED <<inputs, result, concurrent>>

Popped == fringe[peek(fringe)]

\* lines 280-285: the popped node is finalized already
PopStale ==
  /\ pc = "loop" /\ fringe # <<>>
  /\ Popped.node_name \in DOMAIN dist
  /\ Become(loop_body(Q, Cur))
  /\ UNCHANGED <<inputs, pc, result, concurrent>>

\* lines 280-289: the popped node is the target
PopTarget ==
  /\ pc = "loop" /\ fringe # <<>>
  /\ Popped.node_name \notin DOMAIN dist
  /\ loop_body(Q, Cur).pc = "break"
  /\ Become(loop_body(Q, Cur))
  /\ pc' = "break"
  /\ UNCHANGED <<inputs, result, concurrent>>

\* lines 280-312: the popped node is finalized and its successors visited
PopExpand ==
  /\ pc = "loop" /\ fringe # <<>>
  /\ Popped.node_name \notin DOMAIN dist
  /\ loop_body(Q, Cur).pc = "loop"
  /\ Become(loop_body(Q, Cur))
  /\ UNCHANGED <<inputs, pc, result, concurrent>>

\* lines 297-301: a successor is finalized at a larger distance
PopContradictory ==
  /\ pc = "loop" /\ fringe # <<>>
  /\ Popped.node_name \notin DOMAIN dist
  /\ loop_body(Q, Cur).pc = "err"
  /\ Become(loop_body(Q, Cur))
  /\ pc' = "done"
  /\ result' = Err("ContradictoryPaths")
  /\ UNCHANGED <<inputs, concurrent>>

\* lines 315 and 223-229: the loop is over
Return ==
  /\ \/ pc = "loop" /\ fringe = <<>>
     \/ pc = "break"
  /\ pc' = "done"
  /\ result' = Ok(filter_target(get_shortest_path_infos(dist, paths), target))
  /\ UNCHANGED <<inputs, search, concurrent>>

Next ==
  \/ RejectUnweighted
  \/ Seed
  \/ PopStale
  \/ PopTarget
  \/ PopExpand
  \/ PopContradictory
  \/ Return

Spec == Init /\ [][Next]_vars

(***************************************************************************)
(* The same query on directed graphs of four nodes with three sources:     *)
(* the smallest graphs on which the order of the pops of three seeds and   *)
(* of a node behind them matters.                                          *)
(***************************************************************************)
\* largest number of edges of a graph of four nodes
MaxEdgesWide == 3

WideNodes == {1, 2, 3, 4}
WideEdges ==
  [u : WideNodes, v : WideNodes, weight : {None, Some(-1), Some(0)}]

\* the sets of at most n edges between the four nodes
RECURSIVE WideEdgeSets(_)
WideEdgeSets(n) ==
  IF n = 0 THEN {{}}
  ELSE LET smaller == WideEdgeSets(n - 1)
       IN  smaller \cup {s \cup {e} : s \in smaller, e \in WideEdges}

\* the enumeration orders of the successors of every node
WideAdjacencyOrders(edges) ==
  {<<o1, o2, o3, o4>> :
     o1 \in Orders(Successors(edges, 1)), o2 \in Orders(Successors(edges, 2)),
     o3 \in Orders(Successors(edges, 3)), o4 \in Orders(Successors(edges, 4))}

\* directed graphs without self-loops and without parallel edges
WideGraphs ==
  UNION {
    {[directed |-> TRUE, multi_edges |-> FALSE, edges |-> es, order |-> o] :
       o \in WideAdjacencyOrders(es)} :
    es \in {s \in WideEdgeSets(MaxEdgesWide) : WellFormed(TRUE, FALSE, s)}}

InitWide ==
  /\ graph \in WideGraphs
  /\ weighted = TRUE
  /\ sources = <<2, 3, 4>>
  /\ target \in {None, Some(1)}
  /\ cutoff = None
  /\ first_only \in BOOLEAN
  /\ paths = <<>>
  /\ dist = <<>>
  /\ seen = <<>>
  /\ fringe = <<>>
  /\ count = 0
  /\ pc = "start"
  /\ result = NoResult
  /\ runs = <<>>
  /\ all_pairs_result = NoResult

SpecWide == InitWide /\ [][Next]_vars

(***************************************************************************)
(* all_pairs: one run of single_source(graph, weighted, node, None,        *)
(* cutoff, first_only) for each node, in parallel (into_par_iter); a step  *)
(* of all_pairs is one step of one run.  Each run builds its own paths,    *)
(* dist, seen, fringe and count; the graph is shared and only read.        *)
(***************************************************************************)
\* the query that the run of node makes
RunQuery(node) == Query(graph, weighted, <<node>>, None, cutoff, first_only)

NotStarted ==
  [paths |-> <<>>, dist |-> <<>>, seen |-> <<>>, fringe |-> <<>>, count |-> 0,
   pc |-> "start"]

\* the state st of the run of node stored into a map that every run shares
run_step_shared_dist(all, node, st) ==
  [n \in DOMAIN all |->
     IF n = node THEN [all[n] EXCEPT !.st = st]
     ELSE [all[n] EXCEPT !.st.dist = st.dist]]

\* lines 108-112 and 264-268: the run of node writes its own state st
run_step(all, node, st) == [all EXCEPT ![node].st = st]

\* the run of node returns res
run_return(all, node, res) ==
  [all EXCEPT ![node].st.pc = "done", ![node].result = res]

InitAllPairs ==
  /\ graph \in Graphs
  /\ weighted \in BOOLEAN
  /\ IF weighted THEN TRUE
     ELSE \A e \in graph.edges : e.weight \in {None, Some(1)}
  /\ cutoff \in Cutoffs
  /\ first_only \in BOOLEAN
  /\ sources = <<>>
  /\ target = None
  /\ paths = <<>>
  /\ dist = <<>>
  /\ seen = <<>>
  /\ fringe = <<>>
  /\ count = 0
  /\ pc = "start"
  /\ result = NoResult
  /\ runs = [node \in get_all_nodes(graph) |-> [st |-> NotStarted, result |-> NoResult]]
  /\ all_pairs_result = NoResult

\* lines 249-254 in the run of node
RunRejectUnweighted(node) ==
  /\ runs[node].st.pc = "start"
  /\ weight_not_specified(graph, weighted)
  /\ runs' = run_return(runs, node, Err("EdgeWeightNotSpecified"))
  /\ UNCHANGED <<inputs, search, pc, result, all_pairs_result>>

\* lines 264-277 in the run of node
RunSeed(node) ==
  /\ runs[node].st.pc = "start"
  /\ ~weight_not_specified(graph, weighted)
  /\ runs' = run_step(runs, node, seed(RunQuery(node)))
  /\ UNCHANGED <<inputs, search, pc, result, all_pairs_result>>

\* lines 280-312 in the run of node: one iteration of its while loop
RunIterate(node) ==
  /\ runs[node].st.pc = "loop" /\ runs[node].st.fringe # <<>>
  /\ loop_body(RunQuery(node), runs[node].st).pc # "err"
  /\ runs' = run_step(runs, node, loop_body(RunQuery(node), runs[node].st))
  /\ UNCHANGED <<inputs, search, pc, result, all_pairs_result>>

\* lines 297-301 in the run of node
RunContradictory(node) ==
  /\ runs[node].st.pc = "loop" /\ runs[node].st.fringe # <<>>
  /\ loop_body(RunQuery(node), runs[node].st).pc = "err"
  /\ runs' = run_return(run_step(runs, node, loop_body(RunQuery(node), runs[node].st)),
                        node, Err("ContradictoryPaths"))
  /\ UNCHANGED <<inputs, search, pc, result, all_pairs_result>>

\* lines 315 and 223-229 in the run of node
RunReturn(node) ==
  /\ runs[node].st.pc = "loop" /\ runs[node].st.fringe = <<>>
  /\ runs' = run_return(runs, node,
                Ok(filter_target(get_shortest_path_infos(runs[node].st.dist,
                                                         runs[node].st.paths),
                                 None)))
  /\ UNCHANGED <<inputs, search, pc, result, all_pairs_result>>

\* line 111: unwrap() of the Err of a run panics, and all_pairs with it
Unwinds ==
  /\ all_pairs_result = NoResult
  /\ \E node \in DOMAIN runs : runs[node].result.kind = "Err"
  /\ all_pairs_result' = [kind |-> "Panic", error |-> "", value |-> <<>>]
  /\ UNCHANGED <<inputs, search, pc, result, runs>>

\* lines 105-114: every run returned Ok; collect() builds the map
Collect ==
  /\ all_pairs_result = NoResult
  /\ \A node \in DOMAIN runs : runs[node].result.kind = "Ok"
  /\ all_pairs_result' = Ok([node \in DOMAIN runs |-> runs[node].result.value])
  /\ UNCHANGED <<inputs, search, pc, result, runs>>

NextAllPairs ==
  \/ \E node \in DOMAIN runs : RunRejectUnweighted(node)
  \/ \E node \in DOMAIN runs : RunSeed(node)
  \/ \E node \in DOMAIN runs : RunIterate(node)
  \/ \E node \in DOMAIN runs : RunContradictory(node)
  \/ \E node \in DOMAIN runs : RunReturn(node)
  \/ Unwinds
  \/ Collect

SpecAllPairs == InitAllPairs /\ [][NextAllPairs]_vars

(***************************************************************************)
(* What the claims are stated against: the paths of the graph and their    *)
(* costs, computed from the edges alone.                                   *)
(***************************************************************************)
Srcs == {sources[i] : i \in 1 .. Len(sources)}

HasEdge(u, v) ==
  \E e \in graph.edges :
    \/ e.u = u /\ e.v = v
    \/ ~graph.directed /\ e.u = v /\ e.v = u

\* the cost of the step from u to v: 1 if unweighted, else the least weight
\* of the edges from u to v
EdgeCost(u, v) ==
  IF ~weighted THEN 1
  ELSE LET ws == {e.weight[1] : e \in {x \in graph.edges :
                     \/ x.u = u /\ x.v = v
                     \/ ~graph.directed /\ x.u = v /\ x.v = u}}
       IN  CHOOSE w \in ws : \A x \in ws : w <= x

IsWalk(p) == Len(p) >= 1 /\ \A i \in 1 .. (Len(p) - 1) : HasEdge(p[i], p[i + 1])

RECURSIVE WalkCost(_)
WalkCost(p) ==
  IF Len(p) <= 1 THEN 0
  ELSE EdgeCost(p[1], p[2]) + WalkCost(Tail(p))

\* the paths that visit no node twice
SimplePaths ==
  {p \in SeqsUpTo(Nodes, Cardinality(Nodes)) :
     /\ IsWalk(p)
     /\ \A i, j \in 1 .. Len(p) : p[i] = p[j] => i = j}

\* the simple paths from a source to t
PathsTo(t) == {p \in SimplePaths : p[1] \in Srcs /\ p[Len(p)] = t}
Reachable == {t \in Nodes : PathsTo(t) # {}}
TrueDistance(t) ==
  LET costs == {WalkCost(p) : p \in PathsTo(t)}
  IN  CHOOSE c \in costs : \A x \in costs : c <= x

EveryEdgeWeighted == \A e \in graph.edges : e.weight # None
\* every edge cost is at least 0
NonNegativeCosts ==
  ~weighted \/ \A e \in graph.edges : e.weight # None /\ e.weight[1] >= 0
PositiveCosts ==
  ~weighted \/ \A e \in graph.edges : e.weight # None /\ e.weight[1] > 0
HasNegativeEdge ==
  weighted /\ EveryEdgeWeighted /\ \E e \in graph.edges : e.weight[1] < 0
\* no cycle of negative total cost
NoNegativeCycle ==
  \A p \in SimplePaths :
    HasEdge(p[Len(p)], p[1]) => WalkCost(p) + EdgeCost(p[Len(p)], p[1]) >= 0

Keys == DOMAIN result.value
IsOk == pc = "done" /\ result.kind = "Ok"
Range(s) == {s[i] : i \in 1 .. Len(s)}
\* the simple paths to t that cost exactly the returned distance of t
TiedPaths(t) == {p \in PathsTo(t) : WalkCost(p) = result.value[t].distance}
\* the same query under another cutoff
UnderCutoff(c) == multi_source(graph, weighted, sources, target, c, first_only)
\* all_pairs on the graph and the flags of the query
AllPairs == all_pairs(graph, weighted, cutoff, first_only)

(***************************************************************************)
(* C1                                                                      *)
(***************************************************************************)
\* C1: with non-negative edge costs, target = None and cutoff = None, the
\* query returns Ok, its keys are exactly the nodes reachable from a source,
\* and the distance of each key is the least cost of a path from a source.
C1_DistancesAreMinimal ==
  (pc = "done" /\ NonNegativeCosts /\ target = None /\ cutoff = None) =>
    /\ result.kind = "Ok"
    /\ Keys = Reachable
    /\ \A t \in Keys : result.value[t].distance = TrueDistance(t)

\* two sources, and a node outside them that is reached by a path that costs
\* more than its distance
C1_Witness ==
  /\ pc = "done" /\ weighted /\ NonNegativeCosts
  /\ target = None /\ cutoff = None
  /\ Cardinality(Srcs) = 2
  /\ \E t \in Keys \ Srcs :
       \E p \in PathsTo(t) : WalkCost(p) > result.value[t].distance

(***************************************************************************)
(* C2                                                                      *)
(***************************************************************************)
\* C2: with first_only = false and non-negative edge costs (zero included),
\* every path from a source to a key t that costs the returned distance of t
\* is among the paths returned for t.
C2_AllTiesReturned ==
  (IsOk /\ ~first_only /\ NonNegativeCosts) =>
    \A t \in Keys : TiedPaths(t) \subseteq Range(result.value[t].paths)

(***************************************************************************)
(* C3                                                                      *)
(***************************************************************************)
\* C3: every returned path of a key t starts at a source, ends at t, steps
\* along edges of the graph, and costs the returned distance of t.
C3_PathsAreSound ==
  IsOk =>
    \A t \in Keys : \A p \in Range(result.value[t].paths) :
      /\ p[1] \in Srcs
      /\ p[Len(p)] = t
      /\ IsWalk(p)
      /\ WalkCost(p) = result.value[t].distance

\* a key with two returned paths of more than one node
C3_Witness ==
  /\ IsOk /\ weighted
  /\ \E t \in Keys :
       /\ Len(result.value[t].paths) >= 2
       /\ \A p \in Range(result.value[t].paths) : Len(p) >= 2

(***************************************************************************)
(* C4                                                                      *)
(***************************************************************************)
\* C4: with first_only = true no node's path set ever holds more than one
\* path, and every key of an Ok result has exactly one path.
C4_FirstOnlyOnePath ==
  first_only =>
    /\ \A n \in DOMAIN paths : Len(paths[n]) <= 1
    /\ IsOk => \A t \in Keys : Len(result.value[t].paths) = 1

\* a first_only result with a key that two paths reach at its distance
C4_Witness ==
  /\ first_only /\ IsOk
  /\ \E t \in Keys : Cardinality(TiedPaths(t)) >= 2

(***************************************************************************)
(* C5                                                                      *)
(***************************************************************************)
\* C5: when the run of one source fails, all_pairs returns that error as an
\* Err result.
C5_AllPairsReturnsErr ==
  (pc = "done" /\ Len(sources) = 1 /\ target = None /\ result.kind = "Err") =>
    AllPairs = result

(***************************************************************************)
(* C6                                                                      *)
(***************************************************************************)
\* C6 as claimed: on a graph with a negative edge and no negative cycle, with
\* cutoff = None and with or without a target, the outcome is
\* Err(ContradictoryPaths) or Ok with every distance the least path cost.
C6_NeverSilentlyWrong ==
  (pc = "done" /\ HasNegativeEdge /\ NoNegativeCycle /\ cutoff = None) =>
    \/ result = Err("ContradictoryPaths")
    \/ /\ result.kind = "Ok"
       /\ \A t \in Keys : result.value[t].distance = TrueDistance(t)

\* C6 as amended: the same, for the queries with target = None.
C6_NeverSilentlyWrongWithoutTarget ==
  (pc = "done" /\ HasNegativeEdge /\ NoNegativeCycle /\ cutoff = None
     /\ target = None) =>
    \/ result = Err("ContradictoryPaths")
    \/ /\ result.kind = "Ok"
       /\ \A t \in Keys : result.value[t].distance = TrueDistance(t)

\* an Ok result that holds a negative distance
C6_Witness ==
  /\ IsOk /\ HasNegativeEdge /\ NoNegativeCycle
  /\ cutoff = None /\ target = None
  /\ \E t \in Keys : result.value[t].distance < 0

(***************************************************************************)
(* C7                                                                      *)
(***************************************************************************)
\* C7 as claimed: for every pair (s, t) with t in the result of
\* single_source(s, Some(t)), all_pairs has the entry [s][t] and it equals
\* that result.
C7_AllPairsEqualsSingleSource ==
  (IsOk /\ Len(sources) = 1 /\ target # None /\ unwrap(target) \in Keys) =>
    /\ AllPairs.kind = "Ok"
    /\ unwrap(target) \in DOMAIN AllPairs.value[sources[1]]
    /\ AllPairs.value[sources[1]][unwrap(target)] = result.value[unwrap(target)]

\* C7 as amended: the same, whenever all_pairs returns Ok.
C7_AllPairsEqualsSingleSourceWhenOk ==
  (IsOk /\ Len(sources) = 1 /\ target # None /\ unwrap(target) \in Keys
     /\ AllPairs.kind = "Ok") =>
    /\ unwrap(target) \in DOMAIN AllPairs.value[sources[1]]
    /\ AllPairs.value[sources[1]][unwrap(target)] = result.value[unwrap(target)]

\* the loop left on popping a target other than the source, with entries
\* still in the fringe
C7_Witness ==
  /\ IsOk /\ Len(sources) = 1 /\ target # None /\ AllPairs.kind = "Ok"
  /\ unwrap(target) \in Keys \ Srcs
  /\ fringe # <<>>

(***************************************************************************)
(* C8                                                                      *)
(***************************************************************************)
\* C8: with a cutoff c, every key of an Ok result has distance <= c.
C8_DistancesWithinCutoff ==
  (IsOk /\ cutoff # None) =>
    \A t \in Keys : result.value[t].distance <= unwrap(cutoff)

(***************************************************************************)
(* C9                                                                      *)
(***************************************************************************)
\* C9 as claimed: the nodes returned under a cutoff are returned under every
\* larger cutoff.
C9_CutoffMonotone ==
  (IsOk /\ cutoff # None) =>
    \A c \in Cutoffs \ {None} :
      unwrap(c) > unwrap(cutoff) =>
        /\ UnderCutoff(c).kind = "Ok"
        /\ Keys \subseteq DOMAIN UnderCutoff(c).value

\* C9 as amended: the same, whenever the query under the larger cutoff
\* returns Ok.
C9_CutoffMonotoneWhenOk ==
  (IsOk /\ cutoff # None) =>
    \A c \in Cutoffs \ {None} :
      (unwrap(c) > unwrap(cutoff) /\ UnderCutoff(c).kind = "Ok") =>
        Keys \subseteq DOMAIN UnderCutoff(c).value

\* a larger cutoff that returns more nodes
C9_Witness ==
  /\ IsOk /\ cutoff # None /\ Keys # {}
  /\ \E c \in Cutoffs \ {None} :
       /\ unwrap(c) > unwrap(cutoff)
       /\ UnderCutoff(c).kind = "Ok"
       /\ Keys # DOMAIN UnderCutoff(c).value

(***************************************************************************)
(* C10                                                                     *)
(***************************************************************************)
\* C10: the query returns Err(EdgeWeightNotSpecified) exactly when it is
\* weighted and some edge has no weight, and then no search state was built.
C10_EdgeWeightNotSpecified ==
  pc = "done" =>
    /\ result = Err("EdgeWeightNotSpecified")
         <=> (weighted /\ \E e \in graph.edges : e.weight = None)
    /\ result = Err("EdgeWeightNotSpecified") =>
         (paths = <<>> /\ dist = <<>> /\ seen = <<>> /\ fringe = <<>> /\ count = 0)

\* the error on a directed graph whose edges without weight are out of reach
\* of the sources
C10_Witness ==
  /\ pc = "done" /\ result = Err("EdgeWeightNotSpecified")
  /\ graph.directed /\ is_some(cutoff) /\ is_some(target)
  /\ \A e \in graph.edges : e.weight = None => e.u \notin Reachable

(***************************************************************************)
(* C11                                                                     *)
(***************************************************************************)
\* t is reached from a source by a path that costs at most the cutoff, if any
WithinCutoff(t) ==
  t \in Reachable /\ (cutoff # None => TrueDistance(t) <= unwrap(cutoff))

\* C11: with target = Some(t) and non-negative edge costs the query returns
\* Ok, the result has no key other than t, and it has the key t exactly when
\* t is reachable from a source within the cutoff (so an unreachable t gives
\* Ok with an empty map).
C11_TargetFilter ==
  (pc = "done" /\ target # None /\ NonNegativeCosts) =>
    /\ result.kind = "Ok"
    /\ Keys \subseteq {unwrap(target)}
    /\ unwrap(target) \in Keys <=> WithinCutoff(unwrap(target))

(***************************************************************************)
(* C12                                                                     *)
(***************************************************************************)
\* the search is about to pop an entry of the fringe
AboutToPop == pc = "loop" /\ fringe # <<>>

\* C12: the entry the fringe pops has the smallest real distance of the
\* fringe, and among the entries of that distance the smallest sequence
\* number (the one pushed first).
C12_FifoAmongEqualDistance ==
  AboutToPop =>
    \A j \in 1 .. Len(fringe) :
      /\ -Popped.distance <= -fringe[j].distance
      /\ fringe[j].distance = Popped.distance => Popped.count <= fringe[j].count

(***************************************************************************)
(* C13                                                                     *)
(***************************************************************************)
\* the graph g with the weight of every edge set to 1
WithUnitWeights(g) ==
  [g EXCEPT !.edges = {[e EXCEPT !.weight = Some(1)] : e \in g.edges}]

\* C13: a query with weighted = false returns what the query with
\* weighted = true returns on the same graph with every edge weight set to
\* 1: the same keys, distances and paths.
C13_UnweightedIsUnitWeights ==
  (pc = "done" /\ ~weighted) =>
    result = multi_source(WithUnitWeights(graph), TRUE, sources, target,
                          cutoff, first_only)

\* an unweighted query on a graph with an edge without weight that returns a
\* node two edges away from the source
C13_Witness ==
  /\ IsOk /\ ~weighted
  /\ \E e \in graph.edges : e.weight = None
  /\ \E t \in Keys : result.value[t].distance = 2

(***************************************************************************)
(* C14                                                                     *)
(***************************************************************************)
\* C14: with non-negative edge costs, at every point of the search loop every
\* entry of the fringe has a real distance >= every finalized distance; so
\* the distance given to the node finalized next is >= the distance of
\* every node finalized before it.
C14_FinalizedInOrder ==
  (pc \in {"loop", "break"} /\ NonNegativeCosts) =>
    /\ \A j \in 1 .. Len(fringe) : \A n \in DOMAIN dist :
         -fringe[j].distance >= dist[n]
    /\ (fringe # <<>> /\ Popped.node_name \notin DOMAIN dist) =>
         \A n \in DOMAIN dist : -Popped.distance >= dist[n]

\* two nodes finalized at different distances and a node not finalized yet
\* in the fringe
C14_Witness ==
  /\ pc = "loop" /\ weighted /\ NonNegativeCosts
  /\ \E m, n \in DOMAIN dist : dist[m] < dist[n]
  /\ fringe # <<>> /\ Popped.node_name \notin DOMAIN dist

(***************************************************************************)
(* C15                                                                     *)
(***************************************************************************)
\* C15: a step of the search leaves the distance and the paths of every
\* finalized node as they are, and a step that pops an entry of a finalized
\* node removes that entry and changes nothing else.
C15_FinalizedIsFrozen ==
  [][/\ \A n \in DOMAIN dist :
          /\ n \in DOMAIN dist' /\ dist'[n] = dist[n]
          /\ n \in DOMAIN paths' /\ paths'[n] = paths[n]
     /\ (AboutToPop /\ Popped.node_name \in DOMAIN dist) =>
          /\ Len(fringe') = Len(fringe) - 1
          /\ UNCHANGED <<paths, dist, seen, count>>]_vars

\* the search is over with an empty fringe after more entries were pushed
\* than nodes finalized, one of them at a distance that is not the final one
C15_Witness ==
  /\ pc = "done" /\ result.kind = "Ok" /\ fringe = <<>>
  /\ count + Len(sources) > Cardinality(DOMAIN dist)
  /\ \E n \in DOMAIN dist : seen[n] = dist[n] /\ dist[n] < 0 /\ n \in Srcs

(***************************************************************************)
(* C16                                                                     *)
(***************************************************************************)
\* C16: with non-negative edge costs (zero included) no query returns
\* Err(ContradictoryPaths), and no edge between two finalized nodes gives a
\* candidate distance below the finalized distance of its head.
C16_NoContradictionWithoutNegative ==
  NonNegativeCosts =>
    /\ result # Err("ContradictoryPaths")
    /\ \A v, u \in DOMAIN dist :
         HasEdge(v, u) => dist[v] + EdgeCost(v, u) >= dist[u]

\* a query over zero-cost edges is over after expanding a node with an edge
\* back to a node finalized before it at the same distance
C16_Witness ==
  /\ IsOk /\ weighted /\ NonNegativeCosts /\ target = None
  /\ \E v, u \in DOMAIN dist :
       /\ v # u /\ u \in Srcs /\ v \notin Srcs
       /\ HasEdge(v, u) /\ dist[v] + EdgeCost(v, u) = dist[u]

(***************************************************************************)
(* C17                                                                     *)
(***************************************************************************)
\* a cycle of negative total cost through a node reachable from a source
NegativeCycleReachable ==
  \E p \in SimplePaths :
    /\ p[1] \in Reachable
    /\ HasEdge(p[Len(p)], p[1])
    /\ WalkCost(p) + EdgeCost(p[Len(p)], p[1]) < 0

\* C17: with target = None and cutoff = None, a weighted query on a graph
\* with a negative cycle reachable from a source returns
\* Err(ContradictoryPaths).
C17_NegativeCycleDetected ==
  (pc = "done" /\ HasNegativeEdge /\ NegativeCycleReachable
     /\ target = None /\ cutoff = None) =>
    result = Err("ContradictoryPaths")

\* the error on a directed graph with a reachable negative cycle, met after
\* two nodes were finalized
C17_Witness ==
  /\ pc = "done" /\ result = Err("ContradictoryPaths")
  /\ HasNegativeEdge /\ NegativeCycleReachable
  /\ target = None /\ cutoff = None /\ graph.directed
  /\ Cardinality(DOMAIN dist) >= 2

(***************************************************************************)
(* C18                                                                     *)
(***************************************************************************)
\* what a search state leaves to do: the nodes not finalized yet, each with
\* the entries its expansion can push, and the entries in the fringe
RankOf(st) ==
  LET N == Cardinality(Nodes)
  IN  CASE st.pc = "loop" ->
             2 + (N - Cardinality(DOMAIN st.dist)) * (N + 1) + Len(st.fringe)
        [] st.pc = "break" -> 1
        [] OTHER -> 0

Rank ==
  IF pc = "start"
    THEN 3 + Cardinality(Nodes) * (Cardinality(Nodes) + 1) + Len(sources)
    ELSE RankOf(Cur)

\* C18: every query returns.  Each iteration of the while loop, and each
\* step of the query, leaves strictly less to do, for all weights and both
\* first_only settings: a step finalizes one node, not finalized before, and
\* pushes at most one entry for each node, or it removes an entry from the
\* fringe and pushes nothing, or it leaves the loop.
C18_Terminates ==
  /\ [](AboutToPop => RankOf(loop_body(Q, Cur)) < RankOf(Cur))
  /\ [][/\ Rank' < Rank
        /\ count' # count => DOMAIN dist' # DOMAIN dist
        /\ DOMAIN dist' # DOMAIN dist =>
             /\ DOMAIN dist \subseteq DOMAIN dist'
             /\ Cardinality(DOMAIN dist') = Cardinality(DOMAIN dist) + 1]_vars

\* the fringe ran empty after a search over a cycle of cost zero that popped
\* an entry of a finalized node
C18_Witness ==
  /\ pc = "done" /\ fringe = <<>> /\ weighted /\ ~first_only /\ target = None
  /\ count + Len(sources) > Cardinality(DOMAIN dist)
  /\ \E v, u \in DOMAIN dist :
       /\ v # u /\ HasEdge(v, u) /\ HasEdge(u, v)
       /\ EdgeCost(v, u) + EdgeCost(u, v) = 0

(***************************************************************************)
(* C19                                                                     *)
(***************************************************************************)
\* the same query with first_only = false
AllPaths == multi_source(graph, weighted, sources, target, cutoff, FALSE)

\* C19: with non-negative edge costs, the query with first_only = true
\* returns the keys and the distances of the same query with
\* first_only = false, and its one path for each key is one of the paths
\* returned with first_only = false.
C19_FirstOnlyNarrows ==
  (pc = "done" /\ first_only /\ NonNegativeCosts) =>
    /\ result.kind = "Ok" /\ AllPaths.kind = "Ok"
    /\ Keys = DOMAIN AllPaths.value
    /\ \A t \in Keys :
         /\ result.value[t].distance = AllPaths.value[t].distance
         /\ Range(result.value[t].paths) \subseteq Range(AllPaths.value[t].paths)

\* a first_only result with a key for which first_only = false returns two
\* paths
C19_Witness ==
  /\ IsOk /\ first_only /\ NonNegativeCosts
  /\ \E t \in Keys : Len(AllPaths.value[t].paths) >= 2

(***************************************************************************)
(* C20                                                                     *)
(***************************************************************************)
\* what the run of node returns when it runs alone
Alone(node) == single_source(graph, weighted, node, None, cutoff, first_only)

\* C20: in all_pairs, under every interleaving of the runs, a step of one
\* run leaves the state of every other run as it is, every run returns what
\* single_source returns for its node, and an Ok result of all_pairs has
\* exactly one key for each node of the graph, with the value that
\* single_source(graph, weighted, node, None, cutoff, first_only) returns.
C20_RunsAreIndependent ==
  /\ [][\A node \in DOMAIN runs :
          runs'[node] # runs[node] =>
            \A other \in DOMAIN runs \ {node} : runs'[other] = runs[other]]_vars
  /\ [](\A node \in DOMAIN runs :
          runs[node].result # NoResult => runs[node].result = Alone(node))
  /\ [](all_pairs_result.kind = "Ok" =>
          /\ DOMAIN all_pairs_result.value = get_all_nodes(graph)
          /\ \A node \in get_all_nodes(graph) :
               /\ Alone(node).kind = "Ok"
               /\ all_pairs_result.value[node] = Alone(node).value)

\* all_pairs returned Ok on a weighted graph with a node that reaches every
\* node and a node that reaches none
C20_Witness ==
  /\ all_pairs_result.kind = "Ok" /\ weighted
  /\ \E node \in DOMAIN all_pairs_result.value :
       DOMAIN all_pairs_result.value[node] = get_all_nodes(graph)
  /\ \E node \in DOMAIN all_pairs_result.value :
       DOMAIN all_pairs_result.value[node] = {node}

====
